---- MODULE Spec2Model ----
(***************************************************************************)
(* Model of src/app.py: the FastAPI proxy that searches the YouTube Data   *)
(* API and resolves a video id to a playable URL through yt-dlp.           *)
(*                                                                         *)
(* A request is a thread of the server's pool.  Every upstream call (the   *)
(* keyword search, the videos lookup, a yt-dlp extract_info, a thumbnail   *)
(* download) is one step; the code between two upstream calls runs with    *)
(* the step of the call before it.  The upstream services are a fixture:   *)
(* a function from the call made to its outcome, revealed call by call     *)
(* and then fixed, so a repeated call gets the same answer.                *)
(***************************************************************************)
EXTENDS Integers, Sequences, FiniteSets, TLC

\* ------------------------------------------------------------- bounds
NumReq == 2
MaxPage == 2

\* -------------------------------------------------- program constants
API_CAP == 25
RESOLVE_PER_PAGE == 10
MAX_DURATION == 7200
GRID_RESULTS == 10

\* Python's None, and the values `not x` is true of.
None == "<None>"
Falsy(x) == x = None \/ x = ""

Min(a, b) == IF a <= b THEN a ELSE b
Max(a, b) == IF a >= b THEN a ELSE b

\* ------------------------------------------------------------ inputs
Vids == {"v1", "v2"}

\* The format selectors of the prefer table.
F720 == "best[height<=720][ext=mp4]/best[height<=720]"
F480 == "best[height<=480][ext=mp4]/best[height<=480]"
FAUDIO == "bestaudio[ext=m4a]/bestaudio"
Formats == {None, F720, F480, FAUDIO}

\* The "duration" of an info dict: absent (<<>>) or a number of seconds (<<d>>).
NoDuration == <<>>

\* What one extract_info call can do: raise, or return an info dict.
InfoOf(live, dur, url) ==
    [raises |-> FALSE, is_live |-> live, duration |-> dur, url |-> url]
Raised == [raises |-> TRUE, is_live |-> FALSE, duration |-> NoDuration, url |-> None]
EngineOutcomes ==
    { Raised,
      InfoOf(TRUE, NoDuration, "https://cdn/a"),
      InfoOf(TRUE, <<MAX_DURATION + 1>>, "https://cdn/a"),
      InfoOf(FALSE, NoDuration, None),
      InfoOf(FALSE, <<0>>, ""),
      InfoOf(FALSE, <<MAX_DURATION>>, "https://cdn/a"),
      InfoOf(FALSE, <<MAX_DURATION>>, "https://cdn/b"),
      InfoOf(FALSE, <<MAX_DURATION + 1>>, "https://cdn/a") }

\* What one urlopen + json.loads of the Data API can do.
HttpOutcomes == {"ok", "transport_error", "parse_error"}
\* The videos lookup may also answer without the last id (a removed video).
VideosOutcomes == HttpOutcomes \cup {"ok_short"}

\* The ranked items the keyword search has for the query: each item's
\* id.videoId, "" for an item that has none.
VidAt(p) == IF p % 2 = 1 THEN "v1" ELSE "v2"
CatalogOf(n, hole) == [p \in 1..n |-> IF p = hole THEN "" ELSE VidAt(p)]
Catalogs ==
    { CatalogOf(0, 0), CatalogOf(1, 1), CatalogOf(3, 2), CatalogOf(12, 0),
      CatalogOf(API_CAP + 5, 0) }
ApiKeys == {None, "", "KEY"}

\* The parameters a client sends.
FullInputs ==
    [ pages |-> -1..MaxPage,
      cells |-> {-11, -5, 0, 5, 12},
      prefers |-> {"720", "480", "audio", "1080"},
      ids |-> Vids,
      shapes |-> {<<3, 4>>, <<2, 2>>, <<0, 4>>},
      qualities |-> {"hq", "bogus"},
      modes |-> {"bytes", "redirect"},
      max_results |-> {0, 8, API_CAP + 5} ]

\* ------------------------------------------------------------- state
VARIABLES
    apiKey,     \* os.environ["YT_API_KEY"]
    BASE_OPTS,  \* the module-level yt-dlp options
    catalog,    \* fixture: the ranked items of the query
    kwFix,      \* fixture: outcome of the keyword search, by maxResults
    vidFix,     \* fixture: outcome of the videos lookup, by number of ids
    engFix,     \* fixture: outcome of extract_info, by (video id, format)
    req         \* the requests: parameters, position, locals, response

vars == <<apiKey, BASE_OPTS, catalog, kwFix, vidFix, engFix, req>>

Reqs == 1..NumReq

NoResponse ==
    [status |-> 0, error |-> "", url |-> None, results |-> <<>>, duration |-> 0]

\* A request slot before any request arrived; the parameters hold the
\* endpoints' defaults.
Idle ==
    [ pc |-> "idle", kind |-> "none",
      id |-> "v1", prefer |-> "720", page |-> 0, i |-> 0,
      cols |-> 3, rows |-> 4, quality |-> "hq", mode |-> "bytes",
      max_results |-> 8,
      maxResults |-> 0, ids |-> <<>>, results |-> <<>>, searched |-> FALSE,
      per_page |-> 0, idx |-> 0, yt_id |-> None,
      info |-> <<>>, info2 |-> <<>>,
      kwSent |-> <<>>, kwOut |-> <<>>, vidOut |-> <<>>,
      engineLog |-> <<>>, thumbLog |-> <<>>,
      response |-> NoResponse ]

InitialOpts == [format |-> None, player_client |-> "android", geo_bypass |-> TRUE]

Init ==
    /\ apiKey \in ApiKeys
    /\ BASE_OPTS = InitialOpts
    /\ catalog \in Catalogs
    /\ kwFix = [m \in 1..API_CAP |-> {}]
    /\ vidFix = [n \in 1..API_CAP |-> {}]
    /\ engFix = [k \in Vids \X Formats |-> {}]
    /\ req = [r \in Reqs |-> Idle]

\* ------------------------------------------------- helpers of the code
\* The end of a request: the response the client gets.
Finish(rq, status, error, url, results, duration) ==
    [rq EXCEPT !.pc = "done",
               !.response = [status |-> status, error |-> error, url |-> url,
                             results |-> results, duration |-> duration]]

\* raise HTTPException(status_code, detail)
HTTPException(rq, status, detail) == Finish(rq, status, detail, None, <<>>, 0)

\* An exception no handler catches: the framework answers 500.
Unhandled(rq) == Finish(rq, 500, "Internal Server Error", None, <<>>, 0)

\* seq[k] of a Python list: a negative k counts from the end.
PyIndexable(seq, k) == -Len(seq) <= k /\ k < Len(seq)
PyIndex(seq, k) == IF k >= 0 THEN seq[k + 1] ELSE seq[Len(seq) + k + 1]
\* seq[:n] for n >= 0
PySlice(seq, n) == SubSeq(seq, 1, Min(n, Len(seq)))

\* int(info.get("duration") or 0): a missing or zero duration is 0; int() of
\* a whole number of seconds is that number.
int_duration(info) ==
    IF info.duration = NoDuration THEN 0
    ELSE IF info.duration[1] = 0 THEN 0 ELSE info.duration[1]

\* _thumb_url: the still's URL, as <<host path, id, file name>>.
thumb_name(quality) ==
    CASE quality = "default" -> "default.jpg"
      [] quality = "mq" -> "mqdefault.jpg"
      [] quality = "hq" -> "hqdefault.jpg"
      [] quality = "sd" -> "sddefault.jpg"
      [] quality = "max" -> "maxresdefault.jpg"
      [] OTHER -> "hqdefault.jpg"
thumb_url(yt_id, quality) ==
    <<"https://i.ytimg.com/vi", yt_id, thumb_name(IF Falsy(quality) THEN "hq" ELSE quality)>>

\* The prefer -> format table of resolve and _playable_url_from_id.
format_for(prefer) ==
    CASE prefer = "720" -> F720
      [] prefer = "480" -> F480
      [] prefer = "audio" -> FAUDIO
      [] OTHER -> F720

\* Variant of ydl that updates BASE_OPTS itself instead of a copy of it.
ydl_in_place(extra) ==
    [opts |-> [BASE_OPTS EXCEPT !.format = IF extra = None THEN @ ELSE extra],
     base |-> [BASE_OPTS EXCEPT !.format = IF extra = None THEN @ ELSE extra]]

\* ydl(extra): the options of the YoutubeDL built, and BASE_OPTS after the
\* call.  opts is a copy of BASE_OPTS, updated with extra when there is one.
ydl(extra) ==
    [opts |-> [BASE_OPTS EXCEPT !.format = IF extra = None THEN @ ELSE extra],
     base |-> BASE_OPTS]

\* ------------------------------------------------------------- search
\* Variant of the credential check that takes an empty key for a key.
missing_api_key_unset_only(key) == key = None

\* `if not api_key`
missing_api_key(key) == Falsy(key)

\* "maxResults": str(max(1, min(max_results, 25)))
clamp_maxResults(max_results) == Max(1, Min(max_results, API_CAP))

\* search() up to its first upstream call.
search_enter(rq, max_results) ==
    IF missing_api_key(apiKey)
    THEN HTTPException(rq, 500, "missing_api_key")
    ELSE [rq EXCEPT !.pc = "kw", !.maxResults = clamp_maxResults(max_results)]

\* Variant of need that covers the pages before the requested one only.
need_of_previous_page(page, per_page) == page * per_page

\* need = (page + 1) * per_page
need_of(page, per_page) == (page + 1) * per_page

\* Variant of the range check without its test for a negative index.
resolve_index_out_of_range_no_negative(results, idx) ==
    results = <<>> \/ idx >= Len(results)

\* resolve_index: `if not results or idx < 0 or idx >= len(results)`
resolve_index_out_of_range(results, idx) ==
    results = <<>> \/ idx < 0 \/ idx >= Len(results)

\* search_grid_thumb: `if idx < 0 or idx >= len(results)`
grid_thumb_out_of_range(results, idx) ==
    idx < 0 \/ idx >= Len(results)

\* resolve_index after search() returned.
resolve_index_select(rq) ==
    LET idx == rq.page * rq.per_page + rq.i
        r1 == [rq EXCEPT !.idx = idx] IN
    IF resolve_index_out_of_range(rq.results, idx)
    THEN HTTPException(r1, 404, "index_out_of_range")
    ELSE IF ~PyIndexable(rq.results, idx)
    THEN Unhandled(r1)
    ELSE [r1 EXCEPT !.yt_id = PyIndex(rq.results, idx).id, !.pc = "probe"]

\* search_grid_thumb after search() returned.
search_grid_thumb_select(rq) ==
    LET idx == rq.page * rq.per_page + rq.i
        r1 == [rq EXCEPT !.idx = idx] IN
    IF grid_thumb_out_of_range(rq.results, idx)
    THEN HTTPException(r1, 404, "index_out_of_range")
    ELSE IF ~PyIndexable(rq.results, idx)
    THEN Unhandled(r1)
    ELSE LET vid == PyIndex(rq.results, idx).id
             url == thumb_url(vid, rq.quality)
             r2 == [r1 EXCEPT !.yt_id = vid] IN
         IF rq.mode = "redirect"
         THEN Finish(r2, 302, "", url, <<>>, 0)
         ELSE [r2 EXCEPT !.pc = "thumb"]

\* search_grid after search() returned: the first ten results are drawn.
search_grid_render(rq) ==
    Finish(rq, 200, "", None, PySlice(rq.results, GRID_RESULTS), 0)

\* search() returns {"results": results}: its caller goes on.
after_search(rq, results) ==
    LET r1 == [rq EXCEPT !.results = results, !.searched = TRUE] IN
    CASE rq.kind = "search" -> Finish(r1, 200, "", None, results, 0)
      [] rq.kind = "resolve_index" -> resolve_index_select(r1)
      [] rq.kind = "search_grid_thumb" -> search_grid_thumb_select(r1)
      [] rq.kind = "search_grid" -> search_grid_render(r1)

\* The ids of the items the keyword search answers with.
video_ids(items) == SelectSeq(items, LAMBDA v : ~Falsy(v))

\* search() from the answer of the keyword search to its next upstream call.
search_after_keyword(rq, o) ==
    IF o # "ok"
    THEN HTTPException(rq, 502, "search_http_error")
    ELSE LET ids == video_ids(PySlice(catalog, rq.maxResults)) IN
         IF ids = <<>>
         THEN after_search(rq, <<>>)
         ELSE [rq EXCEPT !.ids = ids, !.pc = "videos"]

\* Variant of the except clause that swallows the failure of the lookup.
videos_except_swallow(rq) == after_search(rq, <<>>)

\* The except clause around the videos lookup.
videos_except(rq) == HTTPException(rq, 502, "videos_http_error")

\* search() from the answer of the videos lookup to its return.
search_after_videos(rq, o) ==
    IF o \in {"transport_error", "parse_error"}
    THEN videos_except(rq)
    ELSE LET n == IF o = "ok_short" THEN Len(rq.ids) - 1 ELSE Len(rq.ids) IN
         after_search(rq, [k \in 1..n |-> [id |-> rq.ids[k]]])

\* ------------------------------------------------- the media resolver
\* Variant of the gate that checks the length before is_live.
probe_gate_length_first(info) ==
    IF int_duration(info) > MAX_DURATION THEN "too_long"
    ELSE IF info.is_live THEN "live_not_supported"
    ELSE "ok"

\* Variant of the gate that rejects a duration of exactly the ceiling.
probe_gate_inclusive(info) ==
    IF info.is_live THEN "live_not_supported"
    ELSE IF int_duration(info) >= MAX_DURATION THEN "too_long"
    ELSE "ok"

\* The checks on the probe's info: is_live first, then the length.
probe_gate(info) ==
    IF info.is_live THEN "live_not_supported"
    ELSE IF int_duration(info) > MAX_DURATION THEN "too_long"
    ELSE "ok"

\* resolve from the probe's answer to the format-constrained fetch.
resolve_after_probe(rq, o) ==
    IF o.raises
    THEN HTTPException(rq, 502, "resolve_failed")
    ELSE LET r1 == [rq EXCEPT !.info = <<o>>] IN
         IF probe_gate(o) # "ok"
         THEN Finish(r1, 200, probe_gate(o), None, <<>>, 0)
         ELSE [r1 EXCEPT !.pc = "fetch"]

\* The end of resolve, from info2.
resolve_result(rq, info2) ==
    IF Falsy(info2.url)
    THEN Finish(rq, 200, "no_playable_url", None, <<>>, 0)
    ELSE Finish(rq, 200, "", info2.url, <<>>, int_duration(info2))

\* resolve from the fetch's answer to its return.
resolve_after_fetch(rq, o) ==
    IF o.raises
    THEN HTTPException(rq, 502, "resolve_failed")
    ELSE resolve_result([rq EXCEPT !.info2 = <<o>>], o)

\* Variant of the end of resolve_index without its `if not media` check.
resolve_index_result_unchecked(rq, media) == Finish(rq, 302, "", media, <<>>, 0)

\* The end of resolve_index, from what _playable_url_from_id returned.
resolve_index_result(rq, media) ==
    IF Falsy(media)
    THEN HTTPException(rq, 502, "no_playable_url")
    ELSE Finish(rq, 302, "", media, <<>>, 0)

\* resolve_index, in _playable_url_from_id, from the probe's answer: an
\* exception of extract_info is caught nowhere.
resolve_index_after_probe(rq, o) ==
    IF o.raises
    THEN Unhandled(rq)
    ELSE LET r1 == [rq EXCEPT !.info = <<o>>] IN
         IF probe_gate(o) # "ok"
         THEN resolve_index_result(r1, None)
         ELSE [r1 EXCEPT !.pc = "fetch"]

\* resolve_index, in _playable_url_from_id, from the fetch's answer.
resolve_index_after_fetch(rq, o) ==
    IF o.raises
    THEN Unhandled(rq)
    ELSE resolve_index_result([rq EXCEPT !.info2 = <<o>>], o.url)

\* ----------------------------------------------------------- actions
\* The steps leave the environment and the fixture's ranked items alone.
\* GET /search
search(r, D) ==
    /\ req[r].pc = "idle"
    /\ \E mr \in D.max_results :
        req' = [req EXCEPT ![r] =
                search_enter([Idle EXCEPT !.kind = "search", !.max_results = mr], mr)]
    /\ UNCHANGED <<apiKey, BASE_OPTS, catalog, kwFix, vidFix, engFix>>

\* GET /search_grid_thumb
search_grid_thumb(r, D) ==
    /\ req[r].pc = "idle"
    /\ \E page \in D.pages, i \in D.cells, shape \in D.shapes,
          quality \in D.qualities, mode \in D.modes :
        LET per_page == Max(1, shape[1] * shape[2])
            need == need_of(page, per_page)
            rq == [Idle EXCEPT !.kind = "search_grid_thumb", !.page = page, !.i = i,
                               !.cols = shape[1], !.rows = shape[2],
                               !.quality = quality, !.mode = mode,
                               !.per_page = per_page] IN
        req' = [req EXCEPT ![r] = search_enter(rq, Min(need, API_CAP))]
    /\ UNCHANGED <<apiKey, BASE_OPTS, catalog, kwFix, vidFix, engFix>>

\* GET /resolve_index
resolve_index(r, D) ==
    /\ req[r].pc = "idle"
    /\ \E page \in D.pages, i \in D.cells, prefer \in D.prefers :
        LET per_page == RESOLVE_PER_PAGE
            need == need_of(page, per_page)
            rq == [Idle EXCEPT !.kind = "resolve_index", !.page = page, !.i = i,
                               !.prefer = prefer, !.per_page = per_page] IN
        req' = [req EXCEPT ![r] = search_enter(rq, Min(need, API_CAP))]
    /\ UNCHANGED <<apiKey, BASE_OPTS, catalog, kwFix, vidFix, engFix>>

\* GET /search_grid
search_grid(r, D) ==
    /\ req[r].pc = "idle"
    /\ \E page \in D.pages :
        req' = [req EXCEPT ![r] =
                search_enter([Idle EXCEPT !.kind = "search_grid", !.page = page],
                             GRID_RESULTS)]
    /\ UNCHANGED <<apiKey, BASE_OPTS, catalog, kwFix, vidFix, engFix>>

\* GET /resolve
resolve(r, D) ==
    /\ req[r].pc = "idle"
    /\ \E id \in D.ids, prefer \in D.prefers :
        req' = [req EXCEPT ![r] =
                [Idle EXCEPT !.kind = "resolve", !.id = id, !.prefer = prefer,
                             !.yt_id = id, !.pc = "probe"]]
    /\ UNCHANGED <<apiKey, BASE_OPTS, catalog, kwFix, vidFix, engFix>>

\* search(): the keyword search call and what follows it.
KeywordCall(r) ==
    /\ req[r].pc = "kw"
    /\ \E o \in HttpOutcomes :
        LET rq == req[r]
            m == rq.maxResults IN
        /\ kwFix[m] \subseteq {o}
        /\ kwFix' = [kwFix EXCEPT ![m] = {o}]
        /\ req' = [req EXCEPT ![r] =
                   search_after_keyword(
                       [rq EXCEPT !.kwSent = Append(@, m), !.kwOut = Append(@, o)], o)]
    /\ UNCHANGED <<apiKey, BASE_OPTS, catalog, vidFix, engFix>>

\* search(): the videos lookup and what follows it.
VideosCall(r) ==
    /\ req[r].pc = "videos"
    /\ \E o \in VideosOutcomes :
        LET rq == req[r]
            n == Len(rq.ids) IN
        /\ vidFix[n] \subseteq {o}
        /\ vidFix' = [vidFix EXCEPT ![n] = {o}]
        /\ req' = [req EXCEPT ![r] =
                   search_after_videos([rq EXCEPT !.vidOut = Append(@, o)], o)]
    /\ UNCHANGED <<apiKey, BASE_OPTS, catalog, kwFix, engFix>>

\* Phase 1: `with ydl() as y: info = y.extract_info(...)` and the gate.
ProbeCall(r) ==
    /\ req[r].pc = "probe"
    /\ \E o \in EngineOutcomes :
        LET rq == req[r]
            y == ydl(None)
            key == <<rq.yt_id, y.opts.format>>
            r1 == [rq EXCEPT !.engineLog =
                       Append(@, [phase |-> "probe", format |-> y.opts.format])] IN
        /\ engFix[key] \subseteq {o}
        /\ engFix' = [engFix EXCEPT ![key] = {o}]
        /\ BASE_OPTS' = y.base
        /\ req' = [req EXCEPT ![r] =
                   IF rq.kind = "resolve" THEN resolve_after_probe(r1, o)
                   ELSE resolve_index_after_probe(r1, o)]
    /\ UNCHANGED <<apiKey, catalog, kwFix, vidFix>>

\* Phase 2: `with ydl({"format": fmt}) as y: info2 = y.extract_info(...)`.
FetchCall(r) ==
    /\ req[r].pc = "fetch"
    /\ \E o \in EngineOutcomes :
        LET rq == req[r]
            y == ydl(format_for(rq.prefer))
            key == <<rq.yt_id, y.opts.format>>
            r1 == [rq EXCEPT !.engineLog =
                       Append(@, [phase |-> "fetch", format |-> y.opts.format])] IN
        /\ engFix[key] \subseteq {o}
        /\ engFix' = [engFix EXCEPT ![key] = {o}]
        /\ BASE_OPTS' = y.base
        /\ req' = [req EXCEPT ![r] =
                   IF rq.kind = "resolve" THEN resolve_after_fetch(r1, o)
                   ELSE resolve_index_after_fetch(r1, o)]
    /\ UNCHANGED <<apiKey, catalog, kwFix, vidFix>>

\* search_grid_thumb, mode bytes: the still is downloaded and passed on.
ThumbCall(r) ==
    /\ req[r].pc = "thumb"
    /\ \E o \in {"ok", "transport_error"} :
        LET rq == req[r]
            url == thumb_url(rq.yt_id, rq.quality)
            r1 == [rq EXCEPT !.thumbLog = Append(@, url)] IN
        req' = [req EXCEPT ![r] =
                IF o = "ok" THEN Finish(r1, 200, "", url, <<>>, 0)
                ELSE HTTPException(r1, 502, "thumb_proxy_failed")]
    /\ UNCHANGED <<apiKey, BASE_OPTS, catalog, kwFix, vidFix, engFix>>

\* One request, any endpoint, any parameters.
Next ==
    \E r \in {1} :
        \/ search(r, FullInputs)
        \/ search_grid_thumb(r, FullInputs)
        \/ resolve_index(r, FullInputs)
        \/ search_grid(r, FullInputs)
        \/ resolve(r, FullInputs)
        \/ KeywordCall(r)
        \/ VideosCall(r)
        \/ ProbeCall(r)
        \/ FetchCall(r)
        \/ ThumbCall(r)

Spec == Init /\ [][Next]_vars

\* --------------------------------------------- concurrent requests
\* The parameters of the requests that run side by side.
SmallInputs ==
    [ pages |-> {0},
      cells |-> {0},
      prefers |-> {"720", "audio"},
      ids |-> {"v1"},
      shapes |-> {<<3, 4>>},
      qualities |-> {"hq"},
      modes |-> {"bytes"},
      max_results |-> {8} ]

InitConc ==
    /\ apiKey = "KEY"
    /\ BASE_OPTS = InitialOpts
    /\ catalog \in {CatalogOf(0, 0), CatalogOf(3, 2)}
    /\ kwFix = [m \in 1..API_CAP |-> {}]
    /\ vidFix = [n \in 1..API_CAP |-> {}]
    /\ engFix = [k \in Vids \X Formats |-> {}]
    /\ req = [r \in Reqs |-> Idle]

\* NumReq requests, in any interleaving of their steps.
NextConc ==
    \E r \in Reqs :
        \/ search(r, SmallInputs)
        \/ resolve_index(r, SmallInputs)
        \/ resolve(r, SmallInputs)
        \/ KeywordCall(r)
        \/ VideosCall(r)
        \/ ProbeCall(r)
        \/ FetchCall(r)

SpecConc == InitConc /\ [][NextConc]_vars

\* ------------------------------------------------------------ claims
\* The endpoints that call search().
ThroughSearch == {"search", "search_grid_thumb", "resolve_index", "search_grid"}

\* C1: in resolve_index, once the search returned its records, an absolute
\* index page*10+i that is negative or not below the number of records
\* (zero records included) ends the request with 404 index_out_of_range, and
\* the extraction engine was not called in the request.
C1_OutOfRangeNeverResolves ==
    \A r \in Reqs :
        LET rq == req[r]
            abs == rq.page * 10 + rq.i IN
        (rq.kind = "resolve_index" /\ rq.searched
            /\ (abs < 0 \/ abs >= Len(rq.results)))
        => /\ rq.pc = "done"
           /\ rq.response.status = 404
           /\ rq.response.error = "index_out_of_range"
           /\ rq.engineLog = <<>>

C1_Witness ==
    \E r \in Reqs :
        /\ req[r].kind = "resolve_index" /\ req[r].searched
        /\ Len(req[r].results) > 0
        /\ req[r].page * 10 + req[r].i < 0
        /\ req[r].response.status = 404

\* C2: every outcome of a resolve_index request is a 302 to a resolved URL,
\* 404 index_out_of_range, a 502, or 500 missing_api_key; a failure of the
\* extraction engine ends in a 502, never in an unmapped 500.
C2_ResolveIndexOutcomesMapped ==
    \A r \in Reqs :
        LET rq == req[r] IN
        (rq.kind = "resolve_index" /\ rq.pc = "done")
        => \/ rq.response.status = 302 /\ ~Falsy(rq.response.url)
           \/ rq.response.status = 404 /\ rq.response.error = "index_out_of_range"
           \/ rq.response.status = 502
           \/ rq.response.status = 500 /\ rq.response.error = "missing_api_key"

\* C3: for page >= 0 the maxResults sent to the keyword search is
\* min((page+1)*page_size, 25), page_size being 10 in resolve_index and
\* max(1, cols*rows) in search_grid_thumb.
C3_FetchSizeCoversPage ==
    \A r \in Reqs :
        LET rq == req[r]
            size == IF rq.kind = "resolve_index" THEN 10
                    ELSE IF rq.cols * rq.rows >= 1 THEN rq.cols * rq.rows ELSE 1
            wanted == (rq.page + 1) * size IN
        (rq.kind \in {"resolve_index", "search_grid_thumb"} /\ rq.page >= 0)
        => \A k \in 1..Len(rq.kwSent) :
               rq.kwSent[k] = IF wanted <= 25 THEN wanted ELSE 25

C3_Witness ==
    \E r \in Reqs :
        /\ req[r].kind = "resolve_index" /\ req[r].page = 1
        /\ req[r].kwSent = <<20>>

\* C4: for page >= 0 and any i, a record that resolve_index or
\* search_grid_thumb selects lies in the page's slice
\* [page*page_size, (page+1)*page_size) of the fetched list.
C4_SelectedWithinPage ==
    \A r \in Reqs :
        LET rq == req[r] IN
        (rq.kind \in {"resolve_index", "search_grid_thumb"} /\ rq.page >= 0
            /\ rq.yt_id # None)
        => /\ rq.page * rq.per_page <= rq.idx
           /\ rq.idx < (rq.page + 1) * rq.per_page

\* C5: in resolve, a probe that reports is_live ends the request with
\* live_not_supported, whatever prefer and the duration are, and the
\* format-constrained fetch is not made.
C5_LiveRejectedBeforeFetch ==
    \A r \in Reqs :
        LET rq == req[r] IN
        (rq.kind = "resolve" /\ rq.info # <<>> /\ rq.info[1].is_live)
        => /\ rq.pc = "done"
           /\ rq.response.status = 200
           /\ rq.response.error = "live_not_supported"
           /\ Len(rq.engineLog) = 1
           /\ rq.engineLog[1].phase = "probe"

C5_Witness ==
    \E r \in Reqs :
        /\ req[r].kind = "resolve" /\ req[r].prefer = "audio"
        /\ req[r].info # <<>> /\ req[r].info[1].is_live
        /\ req[r].info[1].duration = <<7201>>
        /\ req[r].response.error = "live_not_supported"

\* C6: in resolve, a probe that reports a video that is not live ends the
\* request with too_long exactly when the duration is above 7200 seconds;
\* 7200, less, and a missing duration go on to the second phase.
C6_TooLongIffOver7200 ==
    \A r \in Reqs :
        LET rq == req[r]
            d == IF rq.info[1].duration = <<>> THEN 0 ELSE rq.info[1].duration[1] IN
        (rq.kind = "resolve" /\ rq.info # <<>> /\ ~rq.info[1].is_live)
        => /\ (rq.pc = "done" /\ rq.response.error = "too_long") <=> (d > 7200)
           /\ (d <= 7200) =>
                 \/ rq.pc = "fetch" /\ Len(rq.engineLog) = 1
                 \/ rq.pc = "done" /\ Len(rq.engineLog) = 2
                       /\ rq.engineLog[2].phase = "fetch"
           /\ (d > 7200) => Len(rq.engineLog) = 1

C6_Witness ==
    \E r \in Reqs :
        /\ req[r].kind = "resolve" /\ req[r].info # <<>>
        /\ ~req[r].info[1].is_live
        /\ req[r].info[1].duration = <<7200>>
        /\ req[r].pc = "fetch"

\* C7: with no API credential every request that goes through search ends
\* with 500 missing_api_key and makes no upstream call of any kind.
C7_MissingCredentialNoUpstream ==
    \A r \in Reqs :
        LET rq == req[r] IN
        ((apiKey = None \/ apiKey = "") /\ rq.kind \in ThroughSearch)
        => /\ rq.pc = "done"
           /\ rq.response.status = 500
           /\ rq.response.error = "missing_api_key"
           /\ rq.kwSent = <<>> /\ rq.vidOut = <<>>
           /\ rq.engineLog = <<>> /\ rq.thumbLog = <<>>

C7_Witness ==
    \E r \in Reqs :
        /\ apiKey = ""
        /\ req[r].kind = "resolve_index"
        /\ req[r].response.error = "missing_api_key"

\* A call of the request failed in transport or in parsing.
Failed(outs) == \E k \in 1..Len(outs) : outs[k] \in {"transport_error", "parse_error"}

SameParameters(a, b) ==
    /\ a.kind = b.kind
    /\ a.id = b.id /\ a.prefer = b.prefer /\ a.page = b.page /\ a.i = b.i
    /\ a.max_results = b.max_results

\* C9: two search, resolve or resolve_index requests with the same
\* parameters get the same response from the same upstream fixture, however
\* their steps and those of other requests interleave, and BASE_OPTS is
\* never changed by a request.
C9_ResponseIsFunctionOfRequest ==
    /\ BASE_OPTS = [format |-> None, player_client |-> "android", geo_bypass |-> TRUE]
    /\ \A r1, r2 \in Reqs :
        (req[r1].pc = "done" /\ req[r2].pc = "done"
            /\ req[r1].kind \in {"search", "resolve", "resolve_index"}
            /\ SameParameters(req[r1], req[r2]))
        => req[r1].response = req[r2].response

C9_Witness ==
    \E r1, r2 \in Reqs :
        /\ r1 # r2
        /\ req[r1].pc = "done" /\ req[r2].pc = "done"
        /\ req[r1].kind = "resolve" /\ SameParameters(req[r1], req[r2])
        /\ req[r1].prefer = "audio"
        /\ req[r1].response.url = "https://cdn/b"
        /\ req[r2].response.url = "https://cdn/b"

\* The request ended in a success: a URL in the body, or a redirect.
Succeeded(rq) ==
    \/ rq.kind = "resolve" /\ rq.response.status = 200 /\ rq.response.error = ""
    \/ rq.kind = "resolve_index" /\ rq.response.status = 302

\* C10: resolve and resolve_index succeed only after one probe followed by
\* one format-constrained fetch, and deliver the non-empty URL of that
\* fetch; a fetch that yields no URL ends as no_playable_url (a soft error
\* of resolve, a 502 of resolve_index), never as a success.
C10_TwoPhaseResolution ==
    \A r \in Reqs :
        LET rq == req[r] IN
        /\ Succeeded(rq)
           => /\ Len(rq.engineLog) = 2
              /\ rq.engineLog[1].phase = "probe"
              /\ rq.engineLog[2].phase = "fetch"
              /\ rq.info # <<>> /\ rq.info2 # <<>>
              /\ rq.response.url = rq.info2[1].url
              /\ rq.response.url # None /\ rq.response.url # ""
        /\ (rq.kind \in {"resolve", "resolve_index"} /\ rq.info2 # <<>>
               /\ (rq.info2[1].url = None \/ rq.info2[1].url = ""))
           => /\ rq.pc = "done"
              /\ rq.response.error = "no_playable_url"
              /\ rq.response.status = IF rq.kind = "resolve" THEN 200 ELSE 502

C10_Witness ==
    \E r \in Reqs :
        /\ req[r].kind = "resolve_index"
        /\ req[r].response.status = 302
        /\ req[r].response.url = "https://cdn/a"

====
